---- MODULE Spec2Model ----
(***************************************************************************)
(* Ocean Trash Management API (src/main.py): the create / list / seed      *)
(* handlers over the "trashhotspot" collection and the /test diagnostics,  *)
(* run by concurrent workers against one document store.                   *)
(*                                                                         *)
(* The store adapter (database.py: db, create_document, get_documents) and *)
(* the schema (schemas.py: TrashHotspot) are imported by main.py (lines    *)
(* 7-8) but are not part of the sources; they are modelled from the        *)
(* specification, sections 3, 4.1 and 4.2.                                 *)
(***************************************************************************)
EXTENDS Integers, Sequences, FiniteSets, TLC

VARIABLES
    db,          \* the process-wide store handle: "live" or "none"
    env,         \* which of DATABASE_URL / DATABASE_NAME are set
    store,       \* the documents of collection "trashhotspot", in insertion order
    nextId,      \* the store's identifier generator
    pc,          \* per worker: "idle" or "seed" (inside the seed loop)
    loc,         \* per worker: the locals of the handler it is running
    response,    \* the HTTP response being sent, NoResponse once it is delivered;
                 \* beside the body: op, status and local, the handler's parameters
                 \* and locals when it answered
    hist,        \* bookkeeping: counts of finished writes and the last write
    workload     \* the write requests the clients send in this run

vars == <<db, env, store, nextId, pc, loc, response, hist, workload>>

----------------------------------------------------------------------------
(* Bounds *)

MaxSeedCalls == 2        \* seed requests of a run that only seeds
MaxCreateCalls == 2      \* stored create requests of a run that seeds once
MaxFaults == 1           \* store calls the server fails
MaxLimit == 2            \* largest limit query value
MaxCollections == 11     \* most collection names the store reports

\* the request workers: two, so that any two handlers can interleave
Workers == {"w1", "w2"}

(* Program constants *)

ErrTextMax == 50         \* str(e)[:50]
CollectionsMax == 10     \* collections[:10]

Min(a, b) == IF a <= b THEN a ELSE b

----------------------------------------------------------------------------
(* Values.  A number is [num |-> n]; text given where a number is expected  *)
(* is [str |-> s].                                                          *)

Num(n) == [num |-> n]
Str(s) == [str |-> s]

\* the numerals the inputs use, with the number each denotes
NumericStrings == [s \in {"12"} |-> 12]

RequiredFields == {"name", "latitude", "longitude", "density", "area_km2", "severity"}
NumericFields == {"latitude", "longitude", "density", "area_km2", "collected_kg"}
HotspotFields == RequiredFields \cup {"description", "collected_kg", "tags"}

Defaults == [description |-> "", collected_kg |-> Num(0), tags |-> <<>>]

\* numeric-from-string coercion of one value
Coercible(v) == "num" \in DOMAIN v \/ v.str \in DOMAIN NumericStrings
Coerce(v) == IF "num" \in DOMAIN v THEN v ELSE Num(NumericStrings[v.str])

\* TrashHotspot(**raw): which required fields are missing, which numbers are bad
MissingFields(raw) == RequiredFields \ DOMAIN raw
BadNumbers(raw) == {f \in NumericFields \cap DOMAIN raw : ~Coercible(raw[f])}
Valid(raw) == MissingFields(raw) = {} /\ BadNumbers(raw) = {}

ValidationText(raw) ==
    IF MissingFields(raw) # {}
    THEN "validation error for TrashHotspot: " \o (CHOOSE f \in MissingFields(raw) : TRUE) \o ": field required"
    ELSE "validation error for TrashHotspot: " \o (CHOOSE f \in BadNumbers(raw) : TRUE) \o ": not a valid number"

\* the validated hotspot: the nine declared fields, numbers coerced, defaults filled in
Parse(raw) ==
    [f \in HotspotFields |->
        IF f \notin DOMAIN raw THEN Defaults[f]
        ELSE IF f \in NumericFields THEN Coerce(raw[f])
        ELSE raw[f]]

----------------------------------------------------------------------------
(* The seed list of seed_hotspots *)

Seeds == <<
    [name |-> "Great Pacific Garbage Patch", latitude |-> Num(31), longitude |-> Num(-140),
     density |-> Num(600), area_km2 |-> Num(1600000),
     description |-> "Largest accumulation of ocean plastic in the North Pacific Gyre",
     collected_kg |-> Num(0), severity |-> "critical",
     tags |-> <<"pacific", "gyre", "macroplastics">>],
    [name |-> "North Atlantic Subtropical Gyre", latitude |-> Num(31), longitude |-> Num(-60),
     density |-> Num(300), area_km2 |-> Num(1000000),
     description |-> "High-density accumulation zone in the Atlantic",
     collected_kg |-> Num(0), severity |-> "high",
     tags |-> <<"atlantic", "gyre">>],
    [name |-> "Indian Ocean Gyre", latitude |-> Num(-25), longitude |-> Num(80),
     density |-> Num(280), area_km2 |-> Num(1200000),
     description |-> "Persistent plastic accumulation region",
     collected_kg |-> Num(0), severity |-> "high",
     tags |-> <<"indian", "gyre">>],
    [name |-> "South Pacific Gyre", latitude |-> Num(-30), longitude |-> Num(-120),
     density |-> Num(200), area_km2 |-> Num(800000),
     description |-> "Southern hemisphere accumulation zone",
     collected_kg |-> Num(0), severity |-> "medium",
     tags |-> <<"pacific", "south">>] >>

----------------------------------------------------------------------------
(* Inputs *)

\* request bodies of POST /api/hotspots
FullPayload ==
    [name |-> "Kamilo Beach", latitude |-> Num(19), longitude |-> Num(-155),
     density |-> Num(84), area_km2 |-> Num(2), description |-> "Debris on the shore",
     collected_kg |-> Num(7), severity |-> "high", tags |-> <<"beach">>]
MinimalPayload ==
    [name |-> "Henderson Island", latitude |-> Str("12"), longitude |-> Num(-128),
     density |-> Num(671), area_km2 |-> Num(37), severity |-> "unknown"]
NamelessPayload ==
    [latitude |-> Num(19), longitude |-> Num(-155), density |-> Num(84),
     area_km2 |-> Num(2), severity |-> "high"]
BadLatitudePayload ==
    [name |-> "Kamilo Beach", latitude |-> Str("north"), longitude |-> Num(-155),
     density |-> Num(84), area_km2 |-> Num(2), severity |-> "high"]
Payloads == {FullPayload, MinimalPayload, NamelessPayload, BadLatitudePayload}

\* the limit query parameter: absent, an integer, or text that is no integer
NoLimit == [absent |-> TRUE]
IntLimit(n) == [int |-> n]
TextLimit == [text |-> "many"]
LimitQueries == {NoLimit, TextLimit} \cup {IntLimit(n) : n \in 0..MaxLimit}

\* a document written to the collection by another program, lacking "severity"
ForeignDoc ==
    [_id |-> 1, name |-> "Unclassified slick", latitude |-> Num(5), longitude |-> Num(6),
     density |-> Num(1), area_km2 |-> Num(1)]
InitialStores == {<<>>, <<ForeignDoc>>}

\* the runs explored: concurrent seed requests, or one seed request among creates
Workloads == {[seeds |-> MaxSeedCalls, creates |-> 0], [seeds |-> 1, creates |-> MaxCreateCalls]}

\* how a call to the store server ends: "" when it goes through, else the text
\* of the error it raises
ShortFault == "write concern timeout"
LongFault == "ServerSelectionTimeoutError: store.example.net:27017: [Errno 111] Connection refused"
StoreFaults == {ShortFault, LongFault}


----------------------------------------------------------------------------
(* The store adapter *)

UnavailableText == "Database not available"

\* how a call to the store server may end now
StoreOutcomes == IF hist.faults < MaxFaults THEN {""} \cup StoreFaults ELSE {""}

\* the text a store call raises, "" when it goes through: without a handle it
\* fails at once, with one it ends as the server decides
StoreRaises(outcome) == IF db = "none" THEN UnavailableText ELSE outcome

\* the bookkeeping after a store call that ended with outcome
Counted(h, outcome) == IF db # "none" /\ outcome # "" THEN [h EXCEPT !.faults = @ + 1] ELSE h

\* str(inserted_id)
Digit == <<"0", "1", "2", "3", "4", "5", "6", "7", "8", "9">>
RECURSIVE IdText(_)
IdText(n) == IF n < 10 THEN Digit[n + 1] ELSE IdText(n \div 10) \o Digit[(n % 10) + 1]

\* insert: the collection after one new document with a fresh identifier
Inserted(data) == Append(store, [f \in DOMAIN data \cup {"_id"} |-> IF f = "_id" THEN nextId ELSE data[f]])

Take(docs, m) == SubSeq(docs, 1, Min(m, Len(docs)))
Reverse(docs) == [i \in 1..Len(docs) |-> docs[Len(docs) + 1 - i]]

\* find with filter {}: every document, or the first min(limit, N) of them, in
\* an order the store chooses (oldest first or newest first)
Found(limit) ==
    IF limit = NoLimit THEN {store, Reverse(store)}
    ELSE {Take(store, limit.int), Take(Reverse(store), limit.int)}

----------------------------------------------------------------------------
(* The framework in front of the handlers *)

\* payload: HotspotCreate -- the body is validated before create_hotspot is entered
BodyBinds(raw) == Valid(raw)

\* limit: Optional[int] -- the query is converted before list_hotspots is entered
QueryBinds(q) == q # TextLimit

\* variant: the body is validated inside the handler's try block
UnprocessableAsServerError(text) == [status |-> 500, detail |-> text]

\* the framework's answer to a request it cannot bind to the handler's parameters
Unprocessable(text) == [status |-> 422, detail |-> text]

----------------------------------------------------------------------------
(* The handlers' parts *)

\* variant: the handler swallows the exception and answers normally
HandlerErrorSwallowed(text) == [status |-> 200, detail |-> text]

\* except Exception as e: raise HTTPException(status_code=500, detail=str(e))
HandlerError(text) == [status |-> 500, detail |-> text]

\* variant: the error text is reported whole
TruncateNot(text) == text

\* str(e)[:50]
Truncate(text) == SubSeq(text, 1, Min(Len(text), ErrTextMax))

\* the report of test_database (the texts without their leading status marks)
StatusReport(outcome, names) ==
    LET r0 == [op |-> "test", status |-> 200,
               backend |-> "Running", database |-> "Not Available",
               database_url |-> "None", database_name |-> "None",
               connection_status |-> "Not Connected", collections |-> <<>>]
        r1 == IF db # "none"
              THEN LET c == [r0 EXCEPT !.database = "Available",
                                       !.database_url = "Configured",
                                       !.database_name = "Connected",
                                       !.connection_status = "Connected"]
                   IN IF outcome = ""
                      THEN [c EXCEPT !.collections = SubSeq(names, 1, Min(Len(names), CollectionsMax)),
                                     !.database = "Connected & Working"]
                      ELSE [c EXCEPT !.database = "Connected but Error: " \o Truncate(outcome)]
              ELSE [r0 EXCEPT !.database = "Available but not initialized"]
    IN [r1 EXCEPT !.database_url = IF env.url THEN "Set" ELSE "Not Set",
                  !.database_name = IF env.name THEN "Set" ELSE "Not Set"]

\* variant: the limit is not passed on
FetchedUnlimited(q) == Found(NoLimit)

\* get_documents("trashhotspot", {}, limit)
Fetched(q) == Found(q)

Strip(d) == [f \in DOMAIN d \ {"_id"} |-> d[f]]

\* variant: the pop reaches the stored documents
StoreAfterPopAliased(docs) == [i \in 1..Len(store) |-> Strip(store[i])]

\* d.pop("_id", None) works on the fetched copy: the collection is as it was
StoreAfterPop(docs) == store

\* variant: the fetched documents are returned as they are
ListResultRaw(docs) == [status |-> 200, items |-> docs]

\* variant: a document that fails validation is skipped
ListResultSkipping(docs) ==
    LET good == SelectSeq(docs, LAMBDA d : Valid(Strip(d))) IN
    [status |-> 200, items |-> [i \in 1..Len(good) |-> Parse(Strip(good[i]))]]

\* the loop of list_hotspots: every fetched document without its identifier,
\* validated; the first that fails validation raises
ListResult(docs) ==
    LET bad == {i \in 1..Len(docs) : ~Valid(Strip(docs[i]))} IN
    IF bad = {}
    THEN [status |-> 200, items |-> [i \in 1..Len(docs) |-> Parse(Strip(docs[i]))]]
    ELSE HandlerError(ValidationText(Strip(docs[CHOOSE i \in bad : \A j \in bad : i <= j])))

\* variants: the list is walked backwards; the loop stops one document early
SeedDocReversed(created) == Seeds[Len(Seeds) - Len(created)]
SeedDoneEarly(created) == Len(created) >= Len(Seeds) - 1

\* for s in seeds: the document the loop inserts next, and whether it is over
SeedDoc(created) == Seeds[Len(created) + 1]
SeedDone(created) == Len(created) = Len(Seeds)

\* variant: the list of identifiers is overwritten instead of extended
CreatedOverwritten(created, id) == <<id>>

\* created.append(create_document("trashhotspot", s))
Created(created, id) == Append(created, id)

----------------------------------------------------------------------------
NoResponse == [op |-> "none", status |-> 0]

IdleLoc == [idle |-> TRUE]

Init ==
    /\ db \in {"live", "none"}
    /\ env \in [url : BOOLEAN, name : BOOLEAN]
    /\ db = "live" => env.url /\ env.name
    /\ store \in InitialStores
    /\ nextId = Len(store) + 1
    /\ pc = [p \in Workers |-> "idle"]
    /\ loc = [p \in Workers |-> IdleLoc]
    /\ response = NoResponse
    /\ workload \in Workloads
    /\ hist = [initLen |-> Len(store), createOk |-> 0, seedCalls |-> 0, seedOk |-> 0,
               seedLeft |-> 0, faults |-> 0, lastWrite |-> [kind |-> "none"]]

\* GET /test
TestDatabase ==
    /\ response = NoResponse
    /\ \E p \in Workers : pc[p] = "idle"
    /\ \E outcome \in StoreOutcomes, n \in {0, MaxCollections} :
        LET names == (IF store = <<>> THEN <<>> ELSE <<"trashhotspot">>)
                        \o [i \in 1..n |-> "collection" \o IdText(i)]
        IN /\ response' = StatusReport(outcome, names)
           /\ hist' = Counted(hist, outcome)
    /\ UNCHANGED <<db, env, store, nextId, pc, loc, workload>>

\* POST /api/hotspots
CreateHotspot(raw) ==
    /\ response = NoResponse
    /\ \E p \in Workers : pc[p] = "idle"
    /\ LET request == [op |-> "create", local |-> [payload |-> raw]] IN
       IF ~BodyBinds(raw)
       THEN /\ response' = request @@ Unprocessable(ValidationText(raw))
            /\ UNCHANGED <<store, nextId, hist>>
       ELSE \E outcome \in StoreOutcomes :
            LET data == Parse(raw) IN         \* payload.model_dump()
            /\ StoreRaises(outcome) = "" => hist.createOk < workload.creates
            /\ IF StoreRaises(outcome) # ""
               THEN /\ response' = request @@ HandlerError(StoreRaises(outcome))
                    /\ hist' = Counted(hist, outcome)
                    /\ UNCHANGED <<store, nextId>>
               ELSE /\ store' = Inserted(data)
                    /\ nextId' = nextId + 1
                    /\ response' = request @@ [status |-> 200, id |-> IdText(nextId), ok |-> TRUE]
                    /\ hist' = [hist EXCEPT !.createOk = @ + 1,
                                            !.lastWrite = [kind |-> "create", payload |-> raw]]
    /\ UNCHANGED <<db, env, pc, loc, workload>>

\* POST /api/seed-hotspots: entry, up to the loop
SeedStart(p) ==
    /\ response = NoResponse
    /\ pc[p] = "idle"
    /\ hist.seedCalls < workload.seeds
    /\ pc' = [pc EXCEPT ![p] = "seed"]
    /\ loc' = [loc EXCEPT ![p] = [created |-> <<>>]]
    /\ hist' = [hist EXCEPT !.seedCalls = @ + 1]
    /\ UNCHANGED <<db, env, store, nextId, response, workload>>

\* one iteration of the seed loop, and the return after the last
SeedInsert(p) ==
    /\ response = NoResponse
    /\ pc[p] = "seed"
    /\ \E outcome \in StoreOutcomes :
       LET created == loc[p].created IN
       IF StoreRaises(outcome) # ""
       THEN /\ response' = [op |-> "seed", local |-> [created |-> created]]
                               @@ HandlerError(StoreRaises(outcome))
            /\ pc' = [pc EXCEPT ![p] = "idle"]
            /\ loc' = [loc EXCEPT ![p] = IdleLoc]
            /\ hist' = [Counted(hist, outcome) EXCEPT !.seedLeft = @ + Len(created)]
            /\ UNCHANGED <<store, nextId>>
       ELSE /\ store' = Inserted(SeedDoc(created))
            /\ nextId' = nextId + 1
            /\ LET now == Created(created, IdText(nextId)) IN
               IF ~SeedDone(now)
               THEN /\ loc' = [loc EXCEPT ![p] = [created |-> now]]
                    /\ hist' = [hist EXCEPT !.lastWrite = [kind |-> "seed"]]
                    /\ UNCHANGED <<pc, response>>
               ELSE /\ response' = [op |-> "seed", local |-> [created |-> now], status |-> 200,
                                    inserted |-> now, count |-> Len(now)]
                    /\ pc' = [pc EXCEPT ![p] = "idle"]
                    /\ loc' = [loc EXCEPT ![p] = IdleLoc]
                    /\ hist' = [hist EXCEPT !.seedOk = @ + 1, !.lastWrite = [kind |-> "seed"]]
    /\ UNCHANGED <<db, env, workload>>

\* GET /api/hotspots.  The one store call is the fetch; the loop over the
\* fetched documents touches only locals, so the handler is one step.
ListHotspots(q) ==
    /\ response = NoResponse
    /\ \E p \in Workers : pc[p] = "idle"
    /\ IF ~QueryBinds(q)
       THEN /\ response' = [op |-> "list", local |-> [limit |-> q]]
                               @@ Unprocessable("limit: not a valid integer")
            /\ UNCHANGED <<store, hist>>
       ELSE \E outcome \in StoreOutcomes :
            /\ hist' = Counted(hist, outcome)
            /\ IF StoreRaises(outcome) # ""
               THEN /\ response' = [op |-> "list", local |-> [limit |-> q]]
                                       @@ HandlerError(StoreRaises(outcome))
                    /\ UNCHANGED store
               ELSE \E docs \in Fetched(q) :
                    /\ response' = [op |-> "list", local |-> [limit |-> q, docs |-> docs]]
                                       @@ ListResult(docs)
                    /\ store' = StoreAfterPop(docs)
    /\ UNCHANGED <<db, env, nextId, pc, loc, workload>>

\* the response reaches the client.  One response is recorded at a time: the
\* handlers' steps are taken between deliveries.
Deliver ==
    /\ response # NoResponse
    /\ response' = NoResponse
    /\ UNCHANGED <<db, env, store, nextId, pc, loc, hist, workload>>

Next ==
    \/ Deliver
    \/ TestDatabase
    \/ \E raw \in Payloads : CreateHotspot(raw)
    \/ \E p \in Workers : SeedStart(p)
    \/ \E p \in Workers : SeedInsert(p)
    \/ \E q \in LimitQueries : ListHotspots(q)

Spec == Init /\ [][Next]_vars

----------------------------------------------------------------------------
(* Properties *)

StoredAs(id, doc) == \E i \in 1..Len(store) : IdText(store[i]._id) = id /\ Strip(store[i]) = doc
PositionOf(id) == CHOOSE i \in 1..Len(store) : IdText(store[i]._id) = id
Distinct(ids) == \A i, j \in 1..Len(ids) : i # j => ids[i] # ids[j]

\* the identifiers in created belong to stored copies of the first seeds, in order
SeedPrefixStored(created) ==
    /\ Len(created) <= Len(Seeds)
    /\ \A k \in 1..Len(created) : StoredAs(created[k], Seeds[k])
    /\ \A k \in 1..(Len(created) - 1) : PositionOf(created[k]) < PositionOf(created[k + 1])

AllStoredValid == \A i \in 1..Len(store) : Valid(Strip(store[i]))
NoIdentifier(items) == \A i \in 1..Len(items) : DOMAIN items[i] = HotspotFields

CreateAnswered == response.op = "create" /\ response.status = 200
SeedAnswered == response.op = "seed" /\ response.status = 200
SeedFailed == response.op = "seed" /\ response.status = 500
\* a list response of the handler after its fetch went through
ListFetched == response.op = "list" /\ "docs" \in DOMAIN response.local
\* ... without limit, the last write before it being a create
ListedAfterCreate == ListFetched /\ response.local.limit = NoLimit /\ hist.lastWrite.kind = "create"
HasCreated(items, raw) == \E i \in 1..Len(items) : items[i] = Parse(raw)

CreateContract ==
    /\ CreateAnswered =>
        /\ Len(response.id) > 0 /\ response.ok = TRUE
        /\ store # <<>> /\ IdText(store[Len(store)]._id) = response.id
        /\ Strip(store[Len(store)]) = Parse(response.local.payload)
    /\ (response.op = "create" /\ response.status # 200) =>
        \/ ~Valid(response.local.payload)
        \/ db = "none" /\ response.detail = UnavailableText
        \/ db = "live" /\ response.detail \in StoreFaults

C2_SeedInsertsFour ==
    /\ SeedAnswered =>
        /\ response.count = 4 /\ Len(response.inserted) = 4
        /\ Distinct(response.inserted)
        /\ \A k \in 1..4 : StoredAs(response.inserted[k], Seeds[k])
    /\ (/\ hist.initLen = 0 /\ hist.createOk = 0 /\ hist.seedLeft = 0
        /\ \A p \in Workers : pc[p] = "idle") => Len(store) = 4 * hist.seedOk

\* C2 reached: the second successful seed call on an initially empty collection
C2_Witness == SeedAnswered /\ hist.initLen = 0 /\ hist.seedOk = 2 /\ Len(store) = 8

\* C3: on a collection of N valid records a list request with limit L returns
\* exactly min(L, N) records and one without limit returns all N.
C3_LimitCaps ==
    (ListFetched /\ AllStoredValid) =>
        /\ response.status = 200
        /\ Len(response.items) = IF response.local.limit = NoLimit THEN Len(store)
                                 ELSE Min(response.local.limit.int, Len(store))

\* C3 reached: limit = 2 on the four seeded records returns two
C3_Witness ==
    /\ ListFetched /\ response.local.limit = IntLimit(2)
    /\ hist.seedOk = 1 /\ Len(store) = 4 /\ Len(response.items) = 2

\* C4: the diagnostics response is always a success carrying the full report;
\* an error shows only as at most 50 characters of its text inside the
\* database field, and at most 10 collection names are listed.
C4_DiagnosticsNeverFail ==
    response.op = "test" =>
        /\ response.status = 200
        /\ DOMAIN response = {"op", "status", "backend", "database", "database_url",
                              "database_name", "connection_status", "collections"}
        /\ Len(response.collections) <= CollectionsMax
        /\ (db = "none") <=> (response.database = "Available but not initialized")
        /\ \/ response.database \in {"Available but not initialized", "Connected & Working"}
           \/ \E f \in StoreFaults, n \in 0..ErrTextMax :
                /\ n = Len(f) \/ (n = ErrTextMax /\ Len(f) > ErrTextMax)
                /\ response.database = "Connected but Error: " \o SubSeq(f, 1, n)

\* C4 reached: an error text longer than 50 characters is reported cut to 50
C4_Witness ==
    /\ response.op = "test" /\ Len(LongFault) > ErrTextMax
    /\ response.database = "Connected but Error: " \o SubSeq(LongFault, 1, ErrTextMax)

RequestRejected ==
    \/ response.op = "create" /\ ~Valid(response.local.payload)
    \/ response.op = "list" /\ response.local.limit = TextLimit

\* C5 as stated: every failure of the create, list and seed handlers has
\* status 500.
C5_AsStated ==
    (response.op \in {"create", "list", "seed"} /\ response.status # 200) => response.status = 500

\* C5, amended: an error raised inside the create, list or seed handler (no
\* handle, store failure, a fetched record failing re-validation) is answered
\* with status 500 and the error's text; a request the framework cannot bind
\* (a body that is no valid hotspot, a limit that is no integer) is answered
\* with status 422 before the handler runs; there is no other failure status.
C5_ErrorStatuses ==
    response.op \in {"create", "list", "seed"} =>
        /\ response.status \in {200, 422, 500}
        /\ (response.status = 422) <=> RequestRejected
        /\ response.status = 500 =>
            \/ db = "none" /\ response.detail = UnavailableText
            \/ db = "live" /\ response.detail \in StoreFaults
            \/ /\ ListFetched
               /\ \E i \in 1..Len(store) : /\ ~Valid(Strip(store[i]))
                                           /\ response.detail = ValidationText(Strip(store[i]))

\* C5 reached: a create request without name is answered 422
C5_Witness ==
    response.op = "create" /\ response.local.payload = NamelessPayload /\ response.status = 422

\* C6 as stated: without a handle every create, list and seed request is
\* answered with status 500.
C6_AsStated ==
    (db = "none" /\ response.op \in {"create", "list", "seed"}) => response.status = 500

\* C6, amended: the handle never changes; without it every create, list and
\* seed request fails, with status 500 and the store-unavailable text when the
\* handler is entered and with status 422 when the framework rejects the
\* request first, and nothing is written.
C6_HandleFixed ==
    [][/\ db' = db
       /\ db = "none" =>
            /\ store' = store
            /\ response'.op \in {"create", "list", "seed"} =>
                IF RequestRejected' THEN response'.status = 422
                ELSE response'.status = 500 /\ response'.detail = UnavailableText]_vars

\* C6 reached: without a handle a valid create request is answered 500
C6_Witness ==
    /\ db = "none" /\ response.op = "create" /\ response.status = 500
    /\ response.local.payload = FullPayload

\* C7: stored records are never changed or removed; a step adds at most one
\* record, and only a create or a seed step does; list and diagnostics
\* requests leave the collection as it is.
C7_NoUpdateNoDelete ==
    [][/\ Len(store') >= Len(store)
       /\ SubSeq(store', 1, Len(store)) = store
       /\ Len(store') <= Len(store) + 1
       /\ Len(store') > Len(store) =>
            \/ response'.op = "create" /\ response'.status = 200
            \/ \E p \in Workers : pc[p] = "seed" /\ (pc'[p] = "idle" \/ loc'[p] # loc[p])
       /\ response'.op \in {"list", "test"} => store' = store]_vars

\* C7 reached: a successful list over a collection that writes have grown
C7_Witness == ListFetched /\ response.status = 200 /\ Len(store) >= 5

\* C8: a list request fails with status 500 and returns no records as soon as
\* one fetched record fails re-validation, and otherwise returns the validated
\* form of every fetched record.
C8_ListAllOrNothing ==
    ListFetched =>
        LET docs == response.local.docs IN
        IF \E i \in 1..Len(docs) : ~Valid(Strip(docs[i]))
        THEN response.status = 500 /\ "items" \notin DOMAIN response
        ELSE /\ response.status = 200
             /\ Len(response.items) = Len(docs)
             /\ \A i \in 1..Len(docs) : response.items[i] = Parse(Strip(docs[i]))

\* C8 reached: a list fails although some of the fetched records are valid
C8_Witness ==
    /\ ListFetched /\ response.status = 500
    /\ Len(response.local.docs) >= 3
    /\ \E i \in 1..Len(response.local.docs) : Valid(Strip(response.local.docs[i]))

RECURSIVE InProgress(_)
InProgress(W) ==
    IF W = {} THEN 0
    ELSE LET p == CHOOSE w \in W : TRUE
         IN (IF pc[p] = "seed" THEN Len(loc[p].created) ELSE 0) + InProgress(W \ {p})

\* C9: under every interleaving the stored identifiers are pairwise distinct
\* and every insert is kept: the collection holds its initial records, one per
\* successful create, four per successful seed and the records of unfinished
\* or failed seed calls; a list returns only records that are stored.
C9_NoLostInsert ==
    /\ \A i, j \in 1..Len(store) : i # j => store[i]._id # store[j]._id
    /\ Len(store) = hist.initLen + hist.createOk + 4 * hist.seedOk + hist.seedLeft
                        + InProgress(Workers)
    /\ \A p \in Workers : pc[p] = "seed" => SeedPrefixStored(loc[p].created)
    /\ \A p, q \in Workers :
        (p # q /\ pc[p] = "seed" /\ pc[q] = "seed") =>
            \A i \in 1..Len(loc[p].created), j \in 1..Len(loc[q].created) :
                loc[p].created[i] # loc[q].created[j]
    /\ SeedAnswered => Distinct(response.inserted) /\ SeedPrefixStored(response.inserted)
    /\ CreateAnswered => StoredAs(response.id, Parse(response.local.payload))
    /\ (ListFetched /\ response.status = 200) =>
        \A k \in 1..Len(response.items) :
            \E i \in 1..Len(store) : /\ Valid(Strip(store[i]))
                                        /\ response.items[k] = Parse(Strip(store[i]))

\* C9 reached: two seed loops under way, their inserts interleaved
C9_Witness ==
    /\ \A p \in Workers : pc[p] = "seed" /\ Len(loc[p].created) >= 2
    /\ \E i \in 1..(Len(store) - 1) : store[i].name = store[i + 1].name

\* C10: a seed call that fails at its k-th insert answers 500 without any
\* identifier, and the k-1 records it had inserted, the first k-1 of the seed
\* list in order, stay stored.
C10_SeedNotAtomic ==
    /\ SeedFailed =>
        /\ DOMAIN response = {"op", "status", "detail", "local"}
        /\ Len(response.local.created) \in 0..3
        /\ SeedPrefixStored(response.local.created)
    /\ \A p \in Workers : pc[p] = "seed" =>
        /\ Len(loc[p].created) \in 0..3
        /\ SeedPrefixStored(loc[p].created)

\* C10 reached: a seed call fails at its fourth insert
C10_Witness == SeedFailed /\ db = "live" /\ Len(response.local.created) = 3

====
